---- MODULE Spec2Model ----
(***************************************************************************)
(* Model of fake_review/app.py: a Flask application that stores product    *)
(* reviews in SQLite and scores their credibility.                         *)
(*                                                                         *)
(*   analyze_text   text signals and the preliminary credibility score     *)
(*   analyze_user   frequency penalty from the reviews table               *)
(*   is_fake        threshold comparison                                   *)
(*   submit_review  insert, analyze_text, analyze_user, combine, render    *)
(*                                                                         *)
(* Texts are sequences of one-character strings.  A timestamp string       *)
(* 'YYYY-MM-DD HH:MM:SS' is modelled by the number of seconds it denotes:  *)
(* for this fixed-width format the lexicographic order SQLite applies to   *)
(* two TEXT values is the order of those numbers.  The clock is in         *)
(* milliseconds of UTC; sentiment values are in hundredths.                *)
(*                                                                         *)
(* The row timestamps are SQLite's CURRENT_TIMESTAMP, which is UTC; the    *)
(* bound of analyze_user is datetime.datetime.now(), which is the local    *)
(* time of the process.  The zone of the process is not set by the code:   *)
(* tz is chosen in the initial state and never changes.                    *)
(*                                                                         *)
(* Line 132 tests _name_ (single underscores), an undefined name; the      *)
(* model describes the functions and routes the module defines before it.  *)
(***************************************************************************)
EXTENDS Integers, Sequences, FiniteSets, TLC

VARIABLES
    tz,         \* offset of the process's local time from UTC, in seconds
    clock,      \* the wall clock, in milliseconds of UTC
    reviews,    \* the rows of table reviews, in rowid order
    served,     \* number of submit_review requests accepted so far
    req,        \* per worker thread: the submit_review call it is running
    probe       \* a direct call of one of the pure functions

vars == <<tz, clock, reviews, served, req, probe>>

\* ------------------------------------------------------------------ bounds

NumWorkers == 2
MaxServed == 2
MaxPreset == 6
MaxSignal == 12
MaxPenalty == 10

\* ------------------------------------------------------- program constants

BaseScore == 10
MinScore == 1
ExclamFree == 2
ShortWords == 5
ShortPenalty == 3
ExtremeSentiment == 80
ExtremePenalty == 2
PenaltyFree == 5
Threshold == 6
OneHour == 3600

\* ------------------------------------------------------------------ inputs

\* request.form.get(...) returns None for an absent field.
NoUser == "<None>"
NoText == <<"<None>">>

Empty == <<>>
ScenarioA ==
    <<"E", "x", "c", "e", "l", "l", "e", "n", "t", "!", " ", "E", "x", "c",
      "e", "l", "l", "e", "n", "t", "!", " ", "L", "o", "v", "e", " ", "i",
      "t", "!", "!", "!">>
ScenarioB ==
    <<"W", "o", "r", "k", "s", " ", "a", "s", " ", "e", "x", "p", "e", "c",
      "t", "e", "d", ",", " ", "a", "r", "r", "i", "v", "e", "d", " ", "o",
      "n", " ", "t", "i", "m", "e", ",", " ", "g", "o", "o", "d", " ", "v",
      "a", "l", "u", "e", ".">>
Shout == <<"E", "X", "C", "E", "L", "L", "E", "N", "T", "!", "!">>
Gushing ==
    <<"L", "o", "v", "e", " ", "i", "t", ",", " ", "l", "o", "v", "e", " ",
      "i", "t", "!", " ", "H", "i", "g", "h", "l", "y", " ", "r", "e", "c",
      "o", "m", "m", "e", "n", "d", ",", " ", "e", "x", "c", "e", "l", "l",
      "e", "n", "t", ",", " ", "b", "e", "s", "t", " ", "p", "r", "o", "d",
      "u", "c", "t", " ", "e", "v", "e", "r", "!", "!", "!", "!", "!", "!",
      "!", "!", "!", "!">>
Padded ==
    <<" ", " ", "g", "o", "o", "d", " ", " ", " ", "s", "o", "l", "i", "d",
      "\t", "c", "h", "e", "a", "p", " ", " ", "q", "u", "i", "e", "t", " ",
      "f", "a", "s", "t", " ">>
Glued ==
    <<"e", "x", "c", "e", "l", "l", "e", "n", "t", "e", "x", "c", "e", "l",
      "l", "e", "n", "t", " ", "o", "k", " ", "o", "k", " ", "o", "k">>

Texts == {Empty, ScenarioA, ScenarioB, Shout, Gushing, Padded, Glued}

\* Compound scores the sentiment analyzer may return, in hundredths.
Sentiments == {-100, -81, -80, 0, 80, 81, 100}

\* --------------------------------------------------------- string helpers

UpperChars ==
    <<"A", "B", "C", "D", "E", "F", "G", "H", "I", "J", "K", "L", "M", "N",
      "O", "P", "Q", "R", "S", "T", "U", "V", "W", "X", "Y", "Z">>
LowerChars ==
    <<"a", "b", "c", "d", "e", "f", "g", "h", "i", "j", "k", "l", "m", "n",
      "o", "p", "q", "r", "s", "t", "u", "v", "w", "x", "y", "z">>

LowerChar(c) ==
    IF \E i \in 1..Len(UpperChars) : UpperChars[i] = c
    THEN LowerChars[CHOOSE i \in 1..Len(UpperChars) : UpperChars[i] = c]
    ELSE c

\* The text left as it is: the call of lower() forgotten.
LowerSkipped(s) == s

\* str.lower()
Lower(s) == [i \in 1..Len(s) |-> LowerChar(s[i])]

\* str.count(sub): non-overlapping occurrences, scanning from the left.
RECURSIVE CountFrom(_, _, _)
CountFrom(s, sub, i) ==
    IF i + Len(sub) - 1 > Len(s) THEN 0
    ELSE IF SubSeq(s, i, i + Len(sub) - 1) = sub
         THEN 1 + CountFrom(s, sub, i + Len(sub))
         ELSE CountFrom(s, sub, i + 1)

Count(s, sub) == CountFrom(s, sub, 1)

Whitespace == {" ", "\t", "\n", "\r"}

\* len(str.split()): the number of maximal runs of non-whitespace.
SplitLen(s) ==
    Cardinality({i \in 1..Len(s) :
        /\ s[i] \notin Whitespace
        /\ (i = 1 \/ s[i - 1] \in Whitespace)})

Abs(x) == IF x < 0 THEN -x ELSE x
Max(a, b) == IF a >= b THEN a ELSE b

\* ------------------------------------------------------------ analyze_text

generic_keywords ==
    << <<"b", "e", "s", "t", " ", "p", "r", "o", "d", "u", "c", "t", " ",
         "e", "v", "e", "r">>,
       <<"h", "i", "g", "h", "l", "y", " ", "r", "e", "c", "o", "m", "m",
         "e", "n", "d">>,
       <<"e", "x", "c", "e", "l", "l", "e", "n", "t">>,
       <<"l", "o", "v", "e", " ", "i", "t">> >>

RECURSIVE SumCounts(_, _)
SumCounts(s, k) ==
    IF k = 0 THEN 0
    ELSE Count(s, generic_keywords[k]) + SumCounts(s, k - 1)

GenericCount(review_text) ==
    SumCounts(Lower(review_text), Len(generic_keywords))

ExclamCount(review_text) == Count(review_text, <<"!">>)

WordCount(review_text) == SplitLen(review_text)

\* The penalties with the brevity test written word_count <= 5.
RawScoreShortInclusive(generic_count, exclam_count, word_count, compound) ==
    LET s0 == BaseScore
        s1 == IF generic_count > 0 THEN s0 - generic_count ELSE s0
        s2 == IF exclam_count > ExclamFree
              THEN s1 - (exclam_count - ExclamFree) ELSE s1
        s3 == IF word_count <= ShortWords THEN s2 - ShortPenalty ELSE s2
        s4 == IF Abs(compound) > ExtremeSentiment
              THEN s3 - ExtremePenalty ELSE s3
    IN  s4

\* Lines 59-68: the penalties, applied one after another to a base of 10.
RawScore(generic_count, exclam_count, word_count, compound) ==
    LET s0 == BaseScore
        s1 == IF generic_count > 0 THEN s0 - generic_count ELSE s0
        s2 == IF exclam_count > ExclamFree
              THEN s1 - (exclam_count - ExclamFree) ELSE s1
        s3 == IF word_count < ShortWords THEN s2 - ShortPenalty ELSE s2
        s4 == IF Abs(compound) > ExtremeSentiment
              THEN s3 - ExtremePenalty ELSE s3
    IN  s4

\* Line 70.
CredibilityScore(generic_count, exclam_count, word_count, compound) ==
    Max(RawScore(generic_count, exclam_count, word_count, compound), MinScore)

\* analyze_text for a text that is a string, the analyzer returning compound.
AnalyzeText(review_text, compound) ==
    [generic_phrase_count |-> GenericCount(review_text),
     exclamation_count    |-> ExclamCount(review_text),
     word_count           |-> WordCount(review_text),
     sentiment            |-> compound,
     credibility_score    |->
         CredibilityScore(GenericCount(review_text), ExclamCount(review_text),
                          WordCount(review_text), compound)]

\* ------------------------------------------------- is_fake, the aggregation

\* The comparison written <=.
IsFakeInclusive(credibility_score, threshold) == credibility_score <= threshold

\* is_fake, lines 94-96.
IsFake(credibility_score, threshold) == credibility_score < threshold

\* The difference without line 121's max(overall_score, 1).
OverallScoreUnclamped(credibility_score, user_penalty) ==
    credibility_score - user_penalty

\* submit_review, lines 120-121.
OverallScore(credibility_score, user_penalty) ==
    Max(credibility_score - user_penalty, MinScore)

\* submit_review, lines 120-124.
Combine(credibility_score, user_penalty) ==
    [overall_score |-> OverallScore(credibility_score, user_penalty),
     verdict       |-> IsFake(OverallScore(credibility_score, user_penalty),
                              Threshold)]

\* --------------------------------------------------------- the reviews table

\* init_db: reviews(id INTEGER PRIMARY KEY, user_id TEXT, review_text TEXT,
\* timestamp DATETIME DEFAULT CURRENT_TIMESTAMP).  CREATE TABLE IF NOT EXISTS
\* keeps the rows of an existing reviews.db.
Row(id, user_id, review_text, timestamp) ==
    [id |-> id, user_id |-> user_id, review_text |-> review_text,
     timestamp |-> timestamp]

\* A reviews.db left by earlier runs: k reviews of one user, stored at 0.
Preset(u, k) == [i \in 1..k |-> Row(i, u, Empty, 0)]

\* No rows, or enough of them to reach the penalty threshold.
PresetSizes == {0} \cup {k \in 1..MaxPreset : k >= MaxPreset - 2}
PresetUsers == {"alice", NoUser}
PresetStores == {Preset(u, k) : u \in PresetUsers, k \in PresetSizes}

\* INTEGER PRIMARY KEY without a value: one more than the largest rowid.
NextId(rows) == IF rows = <<>> THEN 1 ELSE rows[Len(rows)].id + 1

\* strftime('%Y-%m-%d %H:%M:%S') and SQLite's CURRENT_TIMESTAMP both drop
\* the fraction of a second.
TimeStr(ms) == ms \div 1000

\* SQLite's CURRENT_TIMESTAMP: the current time in UTC.
CurrentTimestamp == TimeStr(clock)

\* datetime.datetime.now(): the current time in the process's local zone.
LocalNow == clock + tz * 1000

\* INSERT OR REPLACE under the largest existing id: the last row is replaced.
InsertRowReplacing(rows, user_id, review_text, timestamp) ==
    IF rows = <<>>
    THEN <<Row(1, user_id, review_text, timestamp)>>
    ELSE [rows EXCEPT ![Len(rows)] =
             Row(rows[Len(rows)].id, user_id, review_text, timestamp)]

\* INSERT INTO reviews (user_id, review_text) VALUES (?, ?) and commit.
InsertRow(rows, user_id, review_text, timestamp) ==
    Append(rows, Row(NextId(rows), user_id, review_text, timestamp))

\* The comparison as Python's ==, under which None equals None.
SqlEqNullMatches(column, param) == column = param

\* SQL's user_id=? : a comparison with NULL is never true.
SqlEq(column, param) == column # NoUser /\ param # NoUser /\ column = param

\* SELECT COUNT(*) FROM reviews WHERE user_id=? AND timestamp>=?
CountReviews(rows, user_id, time_str) ==
    Cardinality({i \in 1..Len(rows) :
        SqlEq(rows[i].user_id, user_id) /\ rows[i].timestamp >= time_str})

\* analyze_user, lines 90-92.
Penalty(count) == IF count > PenaltyFree THEN count - PenaltyFree ELSE 0

\* ---------------------------------------------------------- submit_review

Workers == 1..NumWorkers

NoAnalysis ==
    [generic_phrase_count |-> -1, exclamation_count |-> -1, word_count |-> -1,
     sentiment |-> 0, credibility_score |-> -1]
NoCount == -1

\* A worker with no request: pc is "idle".  Otherwise the locals of its
\* submit_review call; pc is "stored" after the insert has committed,
\* "analyzed" after analyze_text has returned, "rendered" once the template
\* is rendered with the results, "failed" once an exception has left
\* submit_review.  fault names the call that raised.
IdleReq ==
    [pc |-> "idle", user_id |-> NoUser, review_text |-> NoText, row_id |-> 0,
     analysis |-> NoAnalysis, time_str |-> 0, count |-> NoCount,
     user_penalty |-> NoCount, overall_score |-> NoCount, verdict |-> FALSE,
     fault |-> "none"]

\* analyze_user's failure caught and answered with a penalty of 0.
RaiseSwallowed(q, step) ==
    IF step = "analyze_user"
    THEN [q EXCEPT !.pc = "rendered", !.fault = step, !.count = 0,
                   !.user_penalty = 0,
                   !.overall_score = q.analysis.credibility_score,
                   !.verdict = q.analysis.credibility_score < Threshold]
    ELSE [q EXCEPT !.pc = "failed", !.fault = step]

\* submit_review catches nothing: an exception raised in a step leaves it.
Raise(q, step) == [q EXCEPT !.pc = "failed", !.fault = step]

\* Lines 104-112, the insert committing.
StoreReview(w, U, T) ==
    /\ req[w].pc = "idle"
    /\ served < MaxServed
    /\ \E u \in U, t \in T :
        /\ reviews' = InsertRow(reviews, u, t, CurrentTimestamp)
        /\ req' = [req EXCEPT ![w] =
                     [IdleReq EXCEPT !.pc = "stored", !.user_id = u,
                                     !.review_text = t,
                                     !.row_id = NextId(reviews)]]
    /\ served' = served + 1
    /\ UNCHANGED <<tz, clock, probe>>

\* Lines 104-112, the store failing: nothing is committed.
StoreReviewFails(w, U, T) ==
    /\ req[w].pc = "idle"
    /\ served < MaxServed
    /\ \E u \in U, t \in T :
        req' = [req EXCEPT ![w] =
                  Raise([IdleReq EXCEPT !.user_id = u, !.review_text = t],
                        "insert")]
    /\ served' = served + 1
    /\ UNCHANGED <<tz, clock, reviews, probe>>

\* Line 115 returning: the text is a string and the analyzer answers.
TextAnalysis(w, S) ==
    /\ req[w].pc = "stored"
    /\ req[w].review_text # NoText
    /\ \E c \in S :
        req' = [req EXCEPT ![w].pc = "analyzed",
                           ![w].analysis = AnalyzeText(req[w].review_text, c)]
    /\ UNCHANGED <<tz, clock, reviews, served, probe>>

\* Line 115 raising: None has no lower() (line 44), or the analyzer fails.
TextAnalysisFails(w) ==
    /\ req[w].pc = "stored"
    /\ req' = [req EXCEPT ![w] = Raise(req[w], "analyze_text")]
    /\ UNCHANGED <<tz, clock, reviews, served, probe>>

\* Lines 117-130: analyze_user returns, the scores are combined and rendered.
UserAnalysis(w) ==
    /\ req[w].pc = "analyzed"
    /\ LET time_str == TimeStr(LocalNow - OneHour * 1000)
           count == CountReviews(reviews, req[w].user_id, time_str)
           penalty == Penalty(count)
           result == Combine(req[w].analysis.credibility_score, penalty)
       IN  req' = [req EXCEPT ![w].pc = "rendered",
                              ![w].time_str = time_str,
                              ![w].count = count,
                              ![w].user_penalty = penalty,
                              ![w].overall_score = result.overall_score,
                              ![w].verdict = result.verdict]
    /\ UNCHANGED <<tz, clock, reviews, served, probe>>

\* Line 117 raising: the connection or the query fails.
UserAnalysisFails(w) ==
    /\ req[w].pc = "analyzed"
    /\ req' = [req EXCEPT ![w] = Raise(req[w], "analyze_user")]
    /\ UNCHANGED <<tz, clock, reviews, served, probe>>

\* The response (the page, or the error) is sent; the worker is free again.
Respond(w) ==
    /\ req[w].pc \in {"rendered", "failed"}
    /\ req' = [req EXCEPT ![w] = IdleReq]
    /\ UNCHANGED <<tz, clock, reviews, served, probe>>

\* index, lines 98-100: the empty form is rendered.
Index ==
    UNCHANGED <<tz, clock, reviews, served, req, probe>>

\* init_db, lines 14-27, run on the existing file (the reloader of debug
\* mode imports the module again): CREATE TABLE IF NOT EXISTS keeps its rows.
InitDb ==
    /\ reviews' = reviews
    /\ UNCHANGED <<tz, clock, served, req, probe>>

\* Time passes.
Instants == {0, 3600000, 3600500, 3601000}

Tick ==
    /\ \E t \in Instants : t > clock /\ clock' = t
    /\ UNCHANGED <<tz, reviews, served, req, probe>>

\* ------------------------------------------------------- specifications

TZOffsets == {-7200, 0, 7200}

NoProbe ==
    [kind |-> "none", text |-> Empty, g |-> 0, e |-> 0, w |-> 0, s |-> 0,
     score |-> 0, penalty |-> 0, called |-> FALSE, analysis |-> NoAnalysis,
     overall_score |-> NoCount, verdict |-> FALSE]

\* One worker thread: requests are served one after another.
SeqUsers == {"alice", "bob", NoUser}
SeqTexts == {ScenarioA, NoText}
SeqSentiments == {100}

Init ==
    /\ tz \in TZOffsets
    /\ clock = 0
    /\ reviews \in PresetStores
    /\ served = 0
    /\ req = [w \in Workers |-> IdleReq]
    /\ probe = NoProbe

Next ==
    \/ StoreReview(1, SeqUsers, SeqTexts)
    \/ StoreReviewFails(1, SeqUsers, SeqTexts)
    \/ TextAnalysis(1, SeqSentiments)
    \/ TextAnalysisFails(1)
    \/ UserAnalysis(1)
    \/ UserAnalysisFails(1)
    \/ Respond(1)
    \/ Index
    \/ InitDb
    \/ Tick

Spec == Init /\ [][Next]_vars

\* Worker threads serving requests concurrently (the development server
\* handles each request in a thread of its own).
ConcUsers == {"alice", "bob"}
ConcTexts == {Empty}
ConcSentiments == {0}

InitConc ==
    /\ tz \in TZOffsets
    /\ clock = 0
    /\ reviews = <<>>
    /\ served = 0
    /\ req = [w \in Workers |-> IdleReq]
    /\ probe = NoProbe

NextConc ==
    \/ \E w \in Workers :
        \/ StoreReview(w, ConcUsers, ConcTexts)
        \/ StoreReviewFails(w, ConcUsers, ConcTexts)
        \/ TextAnalysis(w, ConcSentiments)
        \/ TextAnalysisFails(w)
        \/ UserAnalysis(w)
        \/ UserAnalysisFails(w)
        \/ Respond(w)
    \/ Index
    \/ InitDb
    \/ Tick

SpecConc == InitConc /\ [][NextConc]_vars

\* Direct calls of the pure functions, the arguments drawn in the initial
\* state: analyze_text on a text, the scoring of lines 59-70 on signal
\* values, the combination of lines 120-124 on a score and a penalty.
ProbeInputs ==
    {[NoProbe EXCEPT !.kind = "text", !.text = t, !.s = c] :
        t \in Texts, c \in Sentiments}
    \cup
    {[NoProbe EXCEPT !.kind = "signals", !.g = g, !.e = e, !.w = w, !.s = c] :
        g \in 0..MaxSignal, e \in 0..MaxSignal, w \in 0..MaxSignal,
        c \in Sentiments}
    \cup
    {[NoProbe EXCEPT !.kind = "combine", !.score = sc, !.penalty = p] :
        sc \in MinScore..BaseScore, p \in 0..MaxPenalty}

CallAnalyzeText ==
    /\ probe.kind = "text" /\ ~probe.called
    /\ probe' = [probe EXCEPT !.called = TRUE,
                              !.analysis = AnalyzeText(probe.text, probe.s)]
    /\ UNCHANGED <<tz, clock, reviews, served, req>>

CallScore ==
    /\ probe.kind = "signals" /\ ~probe.called
    /\ probe' = [probe EXCEPT
          !.called = TRUE,
          !.analysis = [generic_phrase_count |-> probe.g,
                        exclamation_count |-> probe.e,
                        word_count |-> probe.w,
                        sentiment |-> probe.s,
                        credibility_score |->
                            CredibilityScore(probe.g, probe.e, probe.w,
                                             probe.s)]]
    /\ UNCHANGED <<tz, clock, reviews, served, req>>

CallCombine ==
    /\ probe.kind = "combine" /\ ~probe.called
    /\ probe' = [probe EXCEPT
          !.called = TRUE,
          !.overall_score = Combine(probe.score, probe.penalty).overall_score,
          !.verdict = Combine(probe.score, probe.penalty).verdict]
    /\ UNCHANGED <<tz, clock, reviews, served, req>>

InitScore ==
    /\ tz = 0
    /\ clock = 0
    /\ reviews = <<>>
    /\ served = 0
    /\ req = [w \in Workers |-> IdleReq]
    /\ probe \in ProbeInputs

NextScore == CallAnalyzeText \/ CallScore \/ CallCombine

SpecScore == InitScore /\ [][NextScore]_vars

\* ------------------------------------------------------------ properties

Rendered(w) == req[w].pc = "rendered"

\* The UTC second at which worker w's analyze_user read the clock.
QuerySecond(w) == req[w].time_str - tz + OneHour

\* The rows of user u.
RowsOf(u) == {i \in 1..Len(reviews) : reviews[i].user_id = u}

\* The rows of user u no older than one hour at worker w's query.
InHour(w, u) ==
    {i \in RowsOf(u) : reviews[i].timestamp >= QuerySecond(w) - 3600}

\* C1: every credibility_score analyze_text returns and every overall_score
\* submit_review computes is at least 1, whatever the text, the sentiment and
\* the rows in the store.
C1_ClampInvariant ==
    \A w \in Workers :
        /\ req[w].pc \in {"analyzed", "rendered"}
              => req[w].analysis.credibility_score >= 1
        /\ Rendered(w) => req[w].overall_score >= 1

\* C1 witness: a text score of 1 met by a penalty of at least 2.
C1_Witness ==
    \E w \in Workers :
        /\ Rendered(w)
        /\ req[w].analysis.credibility_score = 1
        /\ req[w].user_penalty >= 2
        /\ req[w].overall_score = 1

\* C2: when all the reviews of a named user lie inside the hour before the
\* query, the query counts every one of them (the k-th submission counts k)
\* and the penalty is max(k - 5, 0).
C2_SequentialPenalty ==
    \A w \in Workers :
        (/\ Rendered(w)
         /\ req[w].user_id # NoUser
         /\ \A i \in RowsOf(req[w].user_id) :
               reviews[i].timestamp > QuerySecond(w) - 3600)
        => /\ req[w].count = Cardinality(RowsOf(req[w].user_id))
           /\ req[w].user_penalty =
                 Max(Cardinality(RowsOf(req[w].user_id)) - 5, 0)

\* C3: the credibility score is
\* max(10 - g - max(e - 2, 0) - (3 if w < 5) - (2 if |s| > 0.8), 1), lies in
\* 1..10, and is 7 for the empty text with a sentiment of at most 0.8.
C3_ScoreFormula ==
    (probe.called /\ probe.kind \in {"signals", "text"}) =>
        LET a == probe.analysis
            g == a.generic_phrase_count
            e == a.exclamation_count
            w == a.word_count
            c == a.sentiment
        IN  /\ g >= 0 /\ e >= 0 /\ w >= 0
            /\ a.credibility_score =
                  Max(10 - g - Max(e - 2, 0)
                         - (IF w < 5 THEN 3 ELSE 0)
                         - (IF Abs(c) > 80 THEN 2 ELSE 0), 1)
            /\ a.credibility_score \in 1..10
            /\ (probe.kind = "text" /\ probe.text = Empty /\ Abs(c) <= 80)
                  => a.credibility_score = 7

\* C3 witness: analyze_text has scored the empty text, sentiment neutral.
C3_Witness ==
    /\ probe.called /\ probe.kind = "text" /\ probe.text = Empty
    /\ probe.s = 0
    /\ probe.analysis.credibility_score = 7

\* C4 as stated: "Excellent! Excellent! Love it!!!" yields 2 generic phrases,
\* 4 exclamation marks, 4 words and a score of 3.
C4_ScenarioA_Stated ==
    (probe.called /\ probe.kind = "text" /\ probe.text = ScenarioA) =>
        /\ probe.analysis.generic_phrase_count = 2
        /\ probe.analysis.exclamation_count = 4
        /\ probe.analysis.word_count = 4
        /\ probe.analysis.credibility_score = 3

\* C4 amended: "Excellent! Excellent! Love it!!!" yields 3 generic phrases
\* ("excellent" twice, "love it" once), 5 exclamation marks, 4 words and,
\* for every sentiment, a score of 1.
C4_ScenarioA ==
    (probe.called /\ probe.kind = "text" /\ probe.text = ScenarioA) =>
        /\ probe.analysis.generic_phrase_count = 3
        /\ probe.analysis.exclamation_count = 5
        /\ probe.analysis.word_count = 4
        /\ probe.analysis.credibility_score = 1

\* C4 witness: analyze_text has analysed the text of scenario A.
C4_Witness ==
    /\ probe.called /\ probe.kind = "text" /\ probe.text = ScenarioA
    /\ probe.s = 0

\* C5: overall_score = max(credibility_score - user_penalty, 1) and the
\* verdict is overall_score < 6: 6 is not fake, 5 is fake, and a score of 10
\* with penalty 2 gives 8, not fake.
C5_Verdict ==
    (probe.called /\ probe.kind = "combine") =>
        /\ probe.overall_score = Max(probe.score - probe.penalty, 1)
        /\ probe.verdict = (probe.overall_score < 6)
        /\ probe.overall_score = 6 => ~probe.verdict
        /\ probe.overall_score = 5 => probe.verdict
        /\ (probe.score = 10 /\ probe.penalty = 2)
              => (probe.overall_score = 8 /\ ~probe.verdict)

\* C5 witness: a score of 10 and a penalty of 4 were combined into 6.
C5_Witness ==
    /\ probe.called /\ probe.kind = "combine"
    /\ probe.score = 10 /\ probe.penalty = 4
    /\ probe.overall_score = 6 /\ ~probe.verdict

\* What a request holds when the named call has raised.
NothingAfter(q, step) ==
    /\ q.pc = "failed"
    /\ q.count = NoCount /\ q.user_penalty = NoCount
    /\ q.overall_score = NoCount /\ q.time_str = 0
    /\ step \in {"insert", "analyze_text"} => q.analysis = NoAnalysis
    /\ step = "insert" => q.row_id = 0

\* C6: a step that fails ends the request there: the exception leaves
\* submit_review, no later step runs, the step is not retried, and no
\* penalty, score or verdict is produced.
C6_FailurePropagates ==
    /\ [](\A w \in Workers :
            req[w].fault # "none" => NothingAfter(req[w], req[w].fault))
    /\ [][\A w \in Workers :
            req[w].pc = "failed" => req'[w] \in {req[w], IdleReq}]_vars

\* C6 witness: the frequency query of a request has failed, after its insert
\* and its text analysis.
C6_Witness ==
    \E w \in Workers :
        /\ req[w].pc = "failed" /\ req[w].fault = "analyze_user"
        /\ req[w].analysis # NoAnalysis
        /\ \E i \in 1..Len(reviews) : reviews[i].id = req[w].row_id

\* C7: a review of the user is counted exactly when its timestamp is at
\* least the time of the query minus one hour; older reviews do not count.
C7_WindowMembership ==
    \A w \in Workers :
        (Rendered(w) /\ req[w].user_id # NoUser)
        => req[w].count = Cardinality(InHour(w, req[w].user_id))

\* C8: the count a request reads includes its own row and the rows of the
\* same user committed before it that are inside the hour: it is at least
\* the position of its own row among them.
C8_ConcurrentCount ==
    \A w \in Workers :
        (/\ Rendered(w)
         /\ req[w].user_id # NoUser
         /\ \E i \in InHour(w, req[w].user_id) :
               reviews[i].id = req[w].row_id)
        => req[w].count >=
              Cardinality({i \in InHour(w, req[w].user_id) :
                              reviews[i].id <= req[w].row_id})

\* The rows with a NULL user_id at or after the bound worker w queried with.
NullRowsInWindow(w) ==
    {i \in RowsOf(NoUser) : reviews[i].timestamp >= req[w].time_str}

\* C9 as stated: with user_id absent the query counts the rows whose
\* user_id is NULL, and the penalty is that count less 5 once it exceeds 5.
C9_NullUser_Stated ==
    \A w \in Workers :
        (Rendered(w) /\ req[w].user_id = NoUser)
        => /\ req[w].count = Cardinality(NullRowsInWindow(w))
           /\ req[w].user_penalty =
                 Max(Cardinality(NullRowsInWindow(w)) - 5, 0)

\* C9 amended: a submission with user_id or review_text absent is stored as
\* it is; with user_id absent the query matches no row, so count and penalty
\* are 0 however many such rows exist; with review_text absent the request
\* ends in analyze_text with an error.
C9_NullUser ==
    \A w \in Workers :
        /\ req[w].row_id # 0 =>
              \E i \in 1..Len(reviews) :
                  /\ reviews[i].id = req[w].row_id
                  /\ reviews[i].user_id = req[w].user_id
                  /\ reviews[i].review_text = req[w].review_text
        /\ (Rendered(w) /\ req[w].user_id = NoUser) =>
              /\ req[w].count = 0
              /\ req[w].user_penalty = 0
              /\ req[w].overall_score = req[w].analysis.credibility_score
        /\ (req[w].review_text = NoText /\ req[w].row_id # 0) =>
              \/ req[w].pc = "stored"
              \/ req[w].pc = "failed" /\ req[w].fault = "analyze_text"

\* C9 witness: a request without user_id is rendered with penalty 0 while
\* more than 5 rows with a NULL user_id lie inside its window.
C9_Witness ==
    \E w \in Workers :
        /\ Rendered(w) /\ req[w].user_id = NoUser
        /\ Cardinality(NullRowsInWindow(w)) > 5
        /\ req[w].user_penalty = 0

\* The ids of the rows.
Ids(rows) == {rows[i].id : i \in 1..Len(rows)}

====
